---- MODULE Spec2Model ----
(***************************************************************************)
(* A model of the request-orchestration pipeline of server.js: the chat,   *)
(* generate, history (GET) and clear (DELETE) handlers, the in-memory      *)
(* conversationStore, retrieveContext and callModelServer.                 *)
(*                                                                         *)
(* Node runs one handler segment at a time: a segment is the code between  *)
(* two awaits.  Every action below is one such segment, so requests        *)
(* interleave exactly at the awaits of axios.post.                         *)
(*                                                                         *)
(* JavaScript arrays are objects: conversationStore holds references, and  *)
(* history.push mutates the array that every holder of the reference sees. *)
(* The variable heap maps array identities to contents.                    *)
(***************************************************************************)
EXTENDS Integers, Sequences, FiniteSets, TLC

VARIABLES
    conversationStore,  \* Map: session key -> array identity (server.js:91)
    heap,               \* array identity -> sequence of exchanges
    req,                \* per handler slot: the request being served
    answers,            \* per session key: /chat answers the model server has given
    RAG_SERVICE_URL     \* TRUE iff process.env.RAG_SERVICE_URL is set

vars == <<conversationStore, heap, req, answers, RAG_SERVICE_URL>>

-----------------------------------------------------------------------------
(* Bounds of the model *)

\* The model server answers at most MaxCalls chat calls; later ones fail.
MaxCalls == 2

\* The same bound in SpecLong, which starts from a session whose history is
\* one exchange short of full.
MaxLongCalls == 3

\* The same bound in SpecSeq, which serves one request at a time.
MaxSeqCalls == 12

\* Date.now() takes the values 0..MaxClock.  It is wall-clock time: two reads
\* may agree (the same millisecond) and it is not monotonic.
MaxClock == 1

\* Handler slots: requests that may be in flight at the same time.
Slots == {1, 2}

-----------------------------------------------------------------------------
(* JavaScript values: undefined, strings (sequences of characters), and    *)
(* other objects (arrays, numbers) that are truthy but have no trim().     *)

Undefined == [t |-> "undefined", v |-> <<>>]

Str(s) == [t |-> "string", v |-> s]

Obj(s) == [t |-> "object", v |-> s]

\* JavaScript truthiness: undefined and "" are falsy.
Truthy(x) == x.t = "object" \/ (x.t = "string" /\ x.v # <<>>)

IsSpace(c) == c = " "

RECURSIVE TrimStart(_)
TrimStart(s) == IF s # <<>> /\ IsSpace(Head(s)) THEN TrimStart(Tail(s)) ELSE s

RECURSIVE TrimEnd(_)
TrimEnd(s) ==
    IF s # <<>> /\ IsSpace(s[Len(s)]) THEN TrimEnd(SubSeq(s, 1, Len(s) - 1)) ELSE s

\* String.prototype.trim
Trim(s) == TrimEnd(TrimStart(s))

\* x || y
OrElse(x, y) == IF Truthy(x) THEN x ELSE y

-----------------------------------------------------------------------------
(* Inputs *)

\* Request bodies' message / prompt: missing, blank, padded text.
Messages == {Undefined, Str(<<" ">>), Str(<<" ", "a", " ">>)}

\* Session keys are pairs <<prefix, number>>.
NoSession == <<"", 0>>

\* `session_${Date.now()}`
SynthKey(t) == <<"session_", t>>

\* Keys are opaque to the server: a client sends none, or one it was given.
SessionKeys == {SynthKey(t) : t \in 0..MaxClock}

\* Texts.  The server never inspects the model's text, so the model tags the
\* n-th answer given within a session with n: every exchange of a session is
\* then distinguishable from every other.
NoText == <<"", 0>>

AnswerText(n) == <<"answer", n>>

GenerateText == <<"generated", 0>>

CannedRefusal == <<"I don't have enough information under Indian law to answer this question.", 0>>

\* A field of req.body.options that the request does not carry.
NotSupplied == -1

\* req.body.options of a generate request, temperature and topP in tenths.  A
\* request without options is one that supplies none of the fields.
Options ==
    [maxLength : {NotSupplied, 100}, temperature : {NotSupplied, 3}, topP : {NotSupplied, 5}]

NoOptions == [maxLength |-> NotSupplied, temperature |-> NotSupplied, topP |-> NotSupplied]

\* Outcomes of axios.post to the retrieval service.
RagOutcomes == {"error", "nulldata", "nofield", "empty", "blank", "text", "nontext"}

\* Outcomes of axios.post to the model server.
ModelOutcomes == {"ok", "nulldata", "status", "timeout"}

-----------------------------------------------------------------------------
(* The Map conversationStore and the array heap *)

NoArray == 0

\* Map.prototype.get, undefined as NoArray
StoreGet(store, k) == IF k \in DOMAIN store THEN store[k] ELSE NoArray

\* Map.prototype.set
StoreSet(store, k, a) == [x \in DOMAIN store \cup {k} |-> IF x = k THEN a ELSE store[x]]

\* Mutant of StoreDelete: Map.prototype.clear, which drops every entry.
StoreClear(store, k) == <<>>

\* Mutant of StoreDelete: the entry is left in place.
StoreKeep(store, k) == store

\* Map.prototype.delete
StoreDelete(store, k) == [x \in DOMAIN store \ {k} |-> store[x]]

\* The identity of a newly created array: the least unused one.
NewId(h) ==
    CHOOSE n \in 1..(Cardinality(DOMAIN h) + 1) :
        n \notin DOMAIN h /\ \A m \in 1..(n - 1) : m \in DOMAIN h

\* Arrays no longer referenced by the store or a running handler are dropped.
Collect(h, store, r) ==
    LET used == {store[k] : k \in DOMAIN store}
                \cup {r[i].history : i \in {j \in Slots : r[j].pc \in {"retrieving", "calling"}}}
    IN [a \in DOMAIN h \cap used |-> h[a]]

-----------------------------------------------------------------------------
(* Prompt engineering *)

\* history.length > 10 ... history.slice(-10)
HistoryLimit == 10

SYSTEM_PROMPT == "Answer ONLY using the provided context."

\* Mutant of buildRagPrompt: a context of at most two characters gets a
\* template that asks for general knowledge instead.
buildPromptByThreshold(context, question) ==
    <<"SYSTEM:",
      IF Len(context) <= 2 THEN "Answer from general knowledge." ELSE SYSTEM_PROMPT,
      "USER:", "Context:", context, "Question:", question, "Answer:">>

\* The template of buildRagPrompt, as the sequence of its parts.  The outer
\* trim() removes the template's own first and last line break only.
buildRagPrompt(context, question) ==
    <<"SYSTEM:", SYSTEM_PROMPT, "USER:", "Context:", context, "Question:", question, "Answer:">>

-----------------------------------------------------------------------------
(* Requests *)

NoRequest ==
    [endpoint |-> "", message |-> <<>>, max_length |-> 0, temperature |-> 0,
     top_p |-> 0, repetition_penalty |-> 0, conversation_history |-> NoArray]

NoBody ==
    [response |-> NoText, sessionId |-> NoSession, history |-> <<>>, error |-> "",
     message |-> ""]

IdleReq ==
    [pc |-> "idle", op |-> "none", message |-> Undefined, options |-> NoOptions,
     sessionId |-> NoSession,
     session |-> NoSession, history |-> NoArray, context |-> Undefined, ragCalls |-> 0, modelCalls |-> 0,
     modelRequest |-> NoRequest, status |-> 0, body |-> NoBody]

\* A request delivered to the process and not yet handled.
Received(op, message, sessionId) ==
    [IdleReq EXCEPT !.pc = "received", !.op = op, !.message = message,
                    !.sessionId = sessionId]

\* res.status(status).json(body): the request is over; what it did is kept.
Respond(r, status, body) ==
    [IdleReq EXCEPT !.pc = "done", !.op = r.op, !.status = status, !.body = body,
                    !.context = r.context, !.ragCalls = r.ragCalls,
                    !.modelCalls = r.modelCalls]

\* A request has arrived and its handler has not run yet.  Node runs the
\* handler's first segment as part of the event that delivers the request, so
\* nothing else runs in between.
Dispatching == \E j \in Slots : req[j].pc = "received"

\* A slot takes a new request when it serves none.
Free(i) == req[i].pc \in {"idle", "done"} /\ ~Dispatching

ArriveChat(i, keys) ==
    /\ Free(i)
    /\ \E m \in Messages, sid \in keys \cup {NoSession} :
           req' = [req EXCEPT ![i] = Received("chat", m, sid)]
    /\ UNCHANGED <<conversationStore, heap, answers, RAG_SERVICE_URL>>

ArriveGenerate(i, opts) ==
    /\ Free(i)
    /\ \E m \in Messages, o \in opts :
           req' = [req EXCEPT ![i] =
                      [Received("generate", m, NoSession) EXCEPT !.options = o]]
    /\ UNCHANGED <<conversationStore, heap, answers, RAG_SERVICE_URL>>

ArriveGet(i, keys) ==
    /\ Free(i)
    /\ \E sid \in keys :
           req' = [req EXCEPT ![i] = Received("get", Undefined, sid)]
    /\ UNCHANGED <<conversationStore, heap, answers, RAG_SERVICE_URL>>

ArriveDelete(i, keys) ==
    /\ Free(i)
    /\ \E sid \in keys :
           req' = [req EXCEPT ![i] = Received("delete", Undefined, sid)]
    /\ UNCHANGED <<conversationStore, heap, answers, RAG_SERVICE_URL>>

-----------------------------------------------------------------------------
(* retrieveContext *)

\* res.data.context of a retrieval response that carries a data object.
RagContextField(outcome) ==
    CASE outcome = "nofield" -> Undefined
      [] outcome = "empty"   -> Str(<<>>)
      [] outcome = "blank"   -> Str(<<" ">>)
      [] outcome = "text"    -> Str(<<" ", "c">>)
      [] outcome = "nontext" -> Obj(<<"c">>)

\* What retrieveContext returns: "" when axios.post throws ("error") or when
\* res.data is null ("nulldata", a TypeError inside the try), else
\* res.data.context || "".
retrieveContext(outcome) ==
    IF outcome \in {"error", "nulldata"}
    THEN Str(<<>>)
    ELSE OrElse(RagContextField(outcome), Str(<<>>))

-----------------------------------------------------------------------------
(* POST /api/chat *)

\* Mutant of MessageMissing: the trim() test is left out.
MessageFalsy(message) == ~Truthy(message)

\* !message || !message.trim()
MessageMissing(message) == ~Truthy(message) \/ ~Truthy(Str(Trim(message.v)))

\* Mutant of ResolveSession: a synthesized key that the store already holds
\* is replaced by one it does not hold, when there is one.
ResolveUnused(sessionId, t) ==
    LET unused == SessionKeys \ DOMAIN conversationStore
    IN IF sessionId # NoSession THEN sessionId
       ELSE IF SynthKey(t) \in unused \/ unused = {} THEN SynthKey(t)
       ELSE CHOOSE k \in unused : TRUE

\* Mutant of ResolveSession: a key is synthesized even when one was sent.
AlwaysSynthesize(sessionId, t) == SynthKey(t)

\* sessionId || `session_${Date.now()}`
ResolveSession(sessionId, t) == IF sessionId # NoSession THEN sessionId ELSE SynthKey(t)

\* Mutant of ContextMissing: the trim() test is left out.
ContextFalsy(context) == ~Truthy(context)

\* !context || !context.trim(), for a context that has trim()
ContextMissing(context) == ~Truthy(context) \/ ~Truthy(Str(Trim(context.v)))

\* Mutant of Overflows: the comparison is off by one.
OverflowsLate(h) == Len(h) > HistoryLimit + 1

\* history.length > 10
Overflows(h) == Len(h) > HistoryLimit

\* Mutant of SliceLast: slice(0, n), which keeps the oldest entries.
SliceFirst(h, n) == IF Len(h) > n THEN SubSeq(h, 1, n) ELSE h

\* Array.prototype.slice(-n)
SliceLast(h, n) == IF Len(h) > n THEN SubSeq(h, Len(h) - n + 1, Len(h)) ELSE h

RefusalBody(session) == [NoBody EXCEPT !.response = CannedRefusal, !.sessionId = session]

\* The catch blocks' body; error.message is opaque text.
ErrorBody(outcome) ==
    [NoBody EXCEPT !.error = "Failed to generate response", !.message = "error.message"]

\* Lines 213-239, run when retrieveContext has returned `context` to request r:
\* the refusal, the TypeError of a context without trim(), or the model call.
AfterRetrieve(r, context) ==
    LET got == [r EXCEPT !.context = context]
    IN IF ~Truthy(context)
       THEN Respond(got, 200, RefusalBody(r.session))
       ELSE IF context.t # "string"
       THEN Respond(got, 500, ErrorBody("TypeError"))
       ELSE IF ContextMissing(context)
       THEN Respond(got, 200, RefusalBody(r.session))
       ELSE [got EXCEPT
                !.pc = "calling",
                !.modelCalls = r.modelCalls + 1,
                !.modelRequest =
                    [endpoint |-> "/chat",
                     message |-> buildRagPrompt(context.v, Trim(r.message.v)),
                     max_length |-> 400, temperature |-> 2, top_p |-> 9,
                     repetition_penalty |-> 11,
                     conversation_history |-> r.history]]

\* The request awaits axios.post to a retrieval service that holds the
\* connection open and never answers: the call sets no timeout (lines
\* 159-162), so the handler never resumes and what it holds is never used.
Stalled(r) == [IdleReq EXCEPT !.pc = "stalled", !.op = r.op, !.ragCalls = r.ragCalls]

\* Mutant of LoadHistory: the handler works on a copy of the stored array.
LoadHistoryCopy(stored, h) ==
    LET a == NewId(h)
    IN [history |-> a,
        heap |-> [x \in DOMAIN h \cup {a} |->
                     IF x # a THEN h[x]
                     ELSE IF stored # NoArray THEN h[stored] ELSE <<>>]]

\* conversationStore.get(session) || []: the stored array itself, or a new
\* empty one; with the heap that holds it.
LoadHistory(stored, h) ==
    IF stored # NoArray
    THEN [history |-> stored, heap |-> h]
    ELSE LET a == NewId(h)
         IN [history |-> a,
             heap |-> [x \in DOMAIN h \cup {a} |-> IF x = a THEN <<>> ELSE h[x]]]

\* Lines 200-211: validation, session key, history load, retrieveContext called.
ChatHandler(i, clock) ==
    /\ req[i].pc = "received"
    /\ req[i].op = "chat"
    /\ IF MessageMissing(req[i].message)
       THEN /\ req' = [req EXCEPT ![i] =
                          Respond(req[i], 400, [NoBody EXCEPT !.error = "Message is required"])]
            /\ UNCHANGED heap
       ELSE \E t \in clock :
            LET session == ResolveSession(req[i].sessionId, t)
                stored == StoreGet(conversationStore, session)
                history == LoadHistory(stored, heap).history
                heap1 == LoadHistory(stored, heap).heap
                r == [req[i] EXCEPT !.sessionId = NoSession, !.session = session,
                                    !.history = history, !.ragCalls = 1]
            IN /\ IF RAG_SERVICE_URL
                  THEN \E silent \in BOOLEAN :
                           req' = [req EXCEPT ![i] =
                                      IF silent THEN Stalled(r)
                                      ELSE [r EXCEPT !.pc = "retrieving"]]
                  ELSE req' = [req EXCEPT ![i] = AfterRetrieve(r, Str(<<>>))]
               /\ heap' = Collect(heap1, conversationStore, req')
    /\ UNCHANGED <<conversationStore, answers, RAG_SERVICE_URL>>

\* The retrieval service answers or the connection fails: lines 163-167, then
\* lines 213-239.
RagReturn(i) ==
    /\ req[i].pc = "retrieving"
    /\ ~Dispatching
    /\ \E outcome \in RagOutcomes :
           req' = [req EXCEPT ![i] = AfterRetrieve(req[i], retrieveContext(outcome))]
    /\ heap' = Collect(heap, conversationStore, req')
    /\ UNCHANGED <<conversationStore, answers, RAG_SERVICE_URL>>

RECURSIVE SumOver(_, _)
SumOver(f, S) ==
    IF S = {} THEN 0 ELSE LET k == CHOOSE x \in S : TRUE IN f[k] + SumOver(f, S \ {k})

TotalAnswers == SumOver(answers, SessionKeys)

\* Mutant of ChatModelOk: history.unshift, which puts the exchange first.
ChatModelOkUnshift(i, cap) ==
    /\ req[i].pc = "calling"
    /\ req[i].op = "chat"
    /\ ~Dispatching
    /\ TotalAnswers < cap
    /\ LET r == req[i]
           text == AnswerText(answers[r.session] + 1)
           exchange == [user |-> Trim(r.message.v), assistant |-> text]
           pushed == <<exchange>> \o heap[r.history]
           heap1 == [heap EXCEPT ![r.history] = pushed]
           sliced == NewId(heap1)
           history == IF Overflows(pushed) THEN sliced ELSE r.history
           heap2 == IF Overflows(pushed)
                    THEN [a \in DOMAIN heap1 \cup {sliced} |->
                             IF a = sliced THEN SliceLast(pushed, HistoryLimit) ELSE heap1[a]]
                    ELSE heap1
       IN /\ conversationStore' = StoreSet(conversationStore, r.session, history)
          /\ req' = [req EXCEPT ![i] =
                        Respond(r, 200, [NoBody EXCEPT !.response = text, !.sessionId = r.session])]
          /\ heap' = Collect(heap2, conversationStore', req')
          /\ answers' = [answers EXCEPT ![r.session] = @ + 1]
    /\ UNCHANGED RAG_SERVICE_URL

\* Mutant of ChatModelOk: the history is read from the store again when the
\* model has answered, and the exchange is appended to what is stored then.
ChatModelOkReread(i, cap) ==
    /\ req[i].pc = "calling"
    /\ req[i].op = "chat"
    /\ ~Dispatching
    /\ TotalAnswers < cap
    /\ LET r == req[i]
           text == AnswerText(answers[r.session] + 1)
           exchange == [user |-> Trim(r.message.v), assistant |-> text]
           stored == StoreGet(conversationStore, r.session)
           target == IF stored # NoArray THEN stored ELSE r.history
           pushed == Append(heap[target], exchange)
           heap1 == [heap EXCEPT ![target] = SliceLast(pushed, HistoryLimit)]
       IN /\ conversationStore' = StoreSet(conversationStore, r.session, target)
          /\ req' = [req EXCEPT ![i] =
                        Respond(r, 200, [NoBody EXCEPT !.response = text, !.sessionId = r.session])]
          /\ heap' = Collect(heap1, conversationStore', req')
          /\ answers' = [answers EXCEPT ![r.session] = @ + 1]
    /\ UNCHANGED RAG_SERVICE_URL

\* The model server answers /chat: lines 241-254.
ChatModelOk(i, cap) ==
    /\ req[i].pc = "calling"
    /\ req[i].op = "chat"
    /\ ~Dispatching
    /\ TotalAnswers < cap
    /\ LET r == req[i]
           text == AnswerText(answers[r.session] + 1)
           exchange == [user |-> Trim(r.message.v), assistant |-> text]
           pushed == Append(heap[r.history], exchange)
           heap1 == [heap EXCEPT ![r.history] = pushed]
           sliced == NewId(heap1)
           history == IF Overflows(pushed) THEN sliced ELSE r.history
           heap2 == IF Overflows(pushed)
                    THEN [a \in DOMAIN heap1 \cup {sliced} |->
                             IF a = sliced THEN SliceLast(pushed, HistoryLimit) ELSE heap1[a]]
                    ELSE heap1
       IN /\ conversationStore' = StoreSet(conversationStore, r.session, history)
          /\ req' = [req EXCEPT ![i] =
                        Respond(r, 200, [NoBody EXCEPT !.response = text, !.sessionId = r.session])]
          /\ heap' = Collect(heap2, conversationStore', req')
          /\ answers' = [answers EXCEPT ![r.session] = @ + 1]
    /\ UNCHANGED RAG_SERVICE_URL

\* Mutant of ModelFail: a failed model call is tried once more before the
\* request is given up.
ModelFailRetried(i) ==
    /\ req[i].pc = "calling"
    /\ ~Dispatching
    /\ \E outcome \in ModelOutcomes \ {"ok"} :
           req' = [req EXCEPT ![i] =
                      IF req[i].modelCalls < 2
                      THEN [req[i] EXCEPT !.modelCalls = @ + 1]
                      ELSE Respond(req[i], 500, ErrorBody(outcome))]
    /\ heap' = Collect(heap, conversationStore, req')
    /\ UNCHANGED <<conversationStore, answers, RAG_SERVICE_URL>>

\* Mutant of ModelFail: the exchange is pushed before the model has answered,
\* so a failed call leaves the user's half of it in the history.
ModelFailRecorded(i) ==
    /\ req[i].pc = "calling"
    /\ req[i].op = "chat"
    /\ ~Dispatching
    /\ LET r == req[i]
           pushed == Append(heap[r.history], [user |-> Trim(r.message.v), assistant |-> NoText])
           heap1 == [heap EXCEPT ![r.history] = pushed]
       IN /\ conversationStore' = StoreSet(conversationStore, r.session, r.history)
          /\ req' = [req EXCEPT ![i] = Respond(r, 500, ErrorBody("status"))]
          /\ heap' = Collect(heap1, conversationStore', req')
    /\ UNCHANGED <<answers, RAG_SERVICE_URL>>

\* callModelServer throws (non-2xx status, unreachable, 60 s timeout), or
\* response.data is null and modelResponse.response throws: the catch block.
ModelFail(i) ==
    /\ req[i].pc = "calling"
    /\ ~Dispatching
    /\ \E outcome \in ModelOutcomes \ {"ok"} :
           req' = [req EXCEPT ![i] = Respond(req[i], 500, ErrorBody(outcome))]
    /\ heap' = Collect(heap, conversationStore, req')
    /\ UNCHANGED <<conversationStore, answers, RAG_SERVICE_URL>>

-----------------------------------------------------------------------------
(* POST /api/generate *)

\* Mutant of GenerateHandler: the request's options replace the fixed
\* generation parameters.
GenerateWithOptions(i) ==
    /\ req[i].pc = "received"
    /\ req[i].op = "generate"
    /\ LET o == req[i].options
           pick(x, d) == IF x # NotSupplied THEN x ELSE d
       IN req' = [req EXCEPT ![i] =
                     IF MessageMissing(req[i].message)
                     THEN Respond(req[i], 400, [NoBody EXCEPT !.error = "Prompt is required"])
                     ELSE [req[i] EXCEPT
                              !.pc = "calling",
                              !.modelCalls = 1,
                              !.modelRequest =
                                  [NoRequest EXCEPT
                                      !.endpoint = "/generate",
                                      !.message = Trim(req[i].message.v),
                                      !.max_length = pick(o.maxLength, 512),
                                      !.temperature = pick(o.temperature, 7),
                                      !.top_p = pick(o.topP, 9)]]]
    /\ UNCHANGED <<conversationStore, heap, answers, RAG_SERVICE_URL>>

\* Lines 268-282.  Only prompt is read from req.body: options is not.
GenerateHandler(i) ==
    /\ req[i].pc = "received"
    /\ req[i].op = "generate"
    /\ req' = [req EXCEPT ![i] =
                  IF MessageMissing(req[i].message)
                  THEN Respond(req[i], 400, [NoBody EXCEPT !.error = "Prompt is required"])
                  ELSE [req[i] EXCEPT
                           !.pc = "calling",
                           !.modelCalls = 1,
                           !.modelRequest =
                               [NoRequest EXCEPT
                                   !.endpoint = "/generate",
                                   !.message = Trim(req[i].message.v),
                                   !.max_length = 512, !.temperature = 7, !.top_p = 9]]]
    /\ UNCHANGED <<conversationStore, heap, answers, RAG_SERVICE_URL>>

\* Mutant of GenerateModelOk: the prompt and the answer are recorded as an
\* exchange of the session without key.
GenerateRecorded(i) ==
    /\ req[i].pc = "calling"
    /\ req[i].op = "generate"
    /\ ~Dispatching
    /\ LET a == NewId(heap)
           heap1 == [x \in DOMAIN heap \cup {a} |->
                        IF x = a
                        THEN <<[user |-> req[i].modelRequest.message, assistant |-> GenerateText]>>
                        ELSE heap[x]]
       IN /\ conversationStore' = StoreSet(conversationStore, SynthKey(0), a)
          /\ req' = [req EXCEPT ![i] =
                        Respond(req[i], 200, [NoBody EXCEPT !.response = GenerateText])]
          /\ heap' = Collect(heap1, conversationStore', req')
    /\ UNCHANGED <<answers, RAG_SERVICE_URL>>

\* The model server answers /generate: lines 284-287.
GenerateModelOk(i) ==
    /\ req[i].pc = "calling"
    /\ req[i].op = "generate"
    /\ ~Dispatching
    /\ req' = [req EXCEPT ![i] = Respond(req[i], 200, [NoBody EXCEPT !.response = GenerateText])]
    /\ UNCHANGED <<conversationStore, heap, answers, RAG_SERVICE_URL>>

-----------------------------------------------------------------------------
(* GET and DELETE /api/chat/:sessionId *)

\* conversationStore.get(id) || [], as the contents sent in the response
HistoryOf(store, h, k) == IF StoreGet(store, k) # NoArray THEN h[StoreGet(store, k)] ELSE <<>>

GetHandler(i) ==
    /\ req[i].pc = "received"
    /\ req[i].op = "get"
    /\ req' = [req EXCEPT ![i] =
                  Respond(req[i], 200,
                          [NoBody EXCEPT !.sessionId = req[i].sessionId,
                                         !.history = HistoryOf(conversationStore, heap, req[i].sessionId)])]
    /\ UNCHANGED <<conversationStore, heap, answers, RAG_SERVICE_URL>>

DeleteHandler(i) ==
    /\ req[i].pc = "received"
    /\ req[i].op = "delete"
    /\ conversationStore' = StoreDelete(conversationStore, req[i].sessionId)
    /\ req' = [req EXCEPT ![i] =
                  Respond(req[i], 200, [NoBody EXCEPT !.message = "Conversation cleared"])]
    /\ heap' = Collect(heap, conversationStore', req')
    /\ UNCHANGED <<answers, RAG_SERVICE_URL>>

-----------------------------------------------------------------------------
(* The specification *)

Init ==
    /\ conversationStore = <<>>
    /\ heap = <<>>
    /\ req = [i \in Slots |-> IdleReq]
    /\ answers = [k \in SessionKeys |-> 0]
    /\ RAG_SERVICE_URL \in BOOLEAN

\* Two requests at a time, on every session key.
Next ==
    \/ \E i \in Slots : ArriveChat(i, SessionKeys)
    \/ \E i \in Slots : ArriveGenerate(i, {NoOptions})
    \/ \E i \in Slots : ArriveGet(i, SessionKeys)
    \/ \E i \in Slots : ArriveDelete(i, SessionKeys)
    \/ \E i \in Slots : ChatHandler(i, 0..MaxClock)
    \/ \E i \in Slots : RagReturn(i)
    \/ \E i \in Slots : ChatModelOk(i, MaxCalls)
    \/ \E i \in Slots : ModelFail(i)
    \/ \E i \in Slots : GenerateHandler(i)
    \/ \E i \in Slots : GenerateModelOk(i)
    \/ \E i \in Slots : GetHandler(i)
    \/ \E i \in Slots : DeleteHandler(i)

Spec == Init /\ [][Next]_vars

\* Two requests at a time, all on one session key, starting from the state
\* in which that session has had HistoryLimit - 1 chat turns, one after the
\* other (SpecSeq reaches it: LongStartReached).
OneKey == {SynthKey(0)}

Exchange(n) == [user |-> <<"a">>, assistant |-> AnswerText(n)]

Prefilled == HistoryLimit - 1

InitLong ==
    /\ conversationStore = [k \in OneKey |-> 1]
    /\ heap = [a \in {1} |-> [n \in 1..Prefilled |-> Exchange(n)]]
    /\ req = [i \in Slots |-> IdleReq]
    /\ answers = [k \in SessionKeys |-> IF k \in OneKey THEN Prefilled ELSE 0]
    /\ RAG_SERVICE_URL = TRUE

NextLong ==
    \/ \E i \in Slots : ArriveChat(i, OneKey)
    \/ \E i \in Slots : ArriveGenerate(i, {NoOptions})
    \/ \E i \in Slots : ArriveGet(i, OneKey)
    \/ \E i \in Slots : ArriveDelete(i, OneKey)
    \/ \E i \in Slots : ChatHandler(i, {0})
    \/ \E i \in Slots : RagReturn(i)
    \/ \E i \in Slots : ChatModelOk(i, Prefilled + MaxLongCalls)
    \/ \E i \in Slots : ModelFail(i)
    \/ \E i \in Slots : GenerateHandler(i)
    \/ \E i \in Slots : GenerateModelOk(i)
    \/ \E i \in Slots : GetHandler(i)
    \/ \E i \in Slots : DeleteHandler(i)

SpecLong == InitLong /\ [][NextLong]_vars

\* One request at a time and no DELETE, on every session key.
NextSeq ==
    \/ ArriveChat(1, SessionKeys)
    \/ ArriveGenerate(1, {NoOptions})
    \/ ArriveGet(1, SessionKeys)
    \/ ChatHandler(1, 0..MaxClock)
    \/ RagReturn(1)
    \/ ChatModelOk(1, MaxSeqCalls)
    \/ ModelFail(1)
    \/ GenerateHandler(1)
    \/ GenerateModelOk(1)
    \/ GetHandler(1)

SpecSeq == Init /\ [][NextSeq]_vars

\* Two requests at a time and no DELETE, on every session key.
NextRace ==
    \/ \E i \in Slots : ArriveChat(i, SessionKeys)
    \/ \E i \in Slots : ArriveGet(i, SessionKeys)
    \/ \E i \in Slots : ChatHandler(i, 0..MaxClock)
    \/ \E i \in Slots : RagReturn(i)
    \/ \E i \in Slots : ChatModelOk(i, MaxCalls)
    \/ \E i \in Slots : ModelFail(i)
    \/ \E i \in Slots : GetHandler(i)

SpecRace == Init /\ [][NextRace]_vars

\* Two chat requests at a time, none of which sends a sessionId.
NextKeyless ==
    \/ \E i \in Slots : ArriveChat(i, {})
    \/ \E i \in Slots : ChatHandler(i, 0..MaxClock)
    \/ \E i \in Slots : RagReturn(i)
    \/ \E i \in Slots : ChatModelOk(i, MaxCalls)
    \/ \E i \in Slots : ModelFail(i)

SpecKeyless == Init /\ [][NextKeyless]_vars

\* Two chat requests, one per slot, for a session that has a stored history
\* of 1, HistoryLimit - 1 or HistoryLimit exchanges (SpecSeq reaches these
\* states: SharedStartReached).  There is no DELETE, and the model server
\* answers only when both requests have loaded the history.
InitShared ==
    \E n \in {1, Prefilled, HistoryLimit} :
        /\ conversationStore = [k \in OneKey |-> 1]
        /\ heap = [a \in {1} |-> [j \in 1..n |-> Exchange(j)]]
        /\ req = [i \in Slots |-> IdleReq]
        /\ answers = [k \in SessionKeys |-> IF k \in OneKey THEN n ELSE 0]
        /\ RAG_SERVICE_URL = TRUE

BothLoaded == \A j \in Slots : req[j].pc \notin {"idle", "received"}

NextShared ==
    \/ \E i \in Slots : req[i].pc = "idle" /\ ArriveChat(i, OneKey)
    \/ \E i \in Slots : ChatHandler(i, {0})
    \/ \E i \in Slots : RagReturn(i)
    \/ \E i \in Slots : BothLoaded /\ ChatModelOk(i, HistoryLimit + 2)
    \/ \E i \in Slots : BothLoaded /\ ModelFail(i)

SpecShared == InitShared /\ [][NextShared]_vars

\* Generate requests only, two at a time, with and without options.
NextGen ==
    \/ \E i \in Slots : ArriveGenerate(i, Options)
    \/ \E i \in Slots : GenerateHandler(i)
    \/ \E i \in Slots : GenerateModelOk(i)
    \/ \E i \in Slots : ModelFail(i)

SpecGen == Init /\ [][NextGen]_vars

\* What the code guarantees to happen.  Node runs every handler segment that
\* is ready.  callModelServer sets timeout: 60000, so an awaited model call
\* ends, with an answer or an error.  retrieveContext sets no timeout: the
\* awaited call ends when the retrieval service answers or the connection
\* fails, which a stalled request never sees.
ModelReturn(i) == ChatModelOk(i, MaxCalls) \/ ModelFail(i) \/ GenerateModelOk(i)

Fairness ==
    \A i \in Slots :
        /\ WF_vars(ChatHandler(i, 0..MaxClock))
        /\ WF_vars(GenerateHandler(i))
        /\ WF_vars(GetHandler(i))
        /\ WF_vars(DeleteHandler(i))
        /\ WF_vars(RagReturn(i))
        /\ WF_vars(ModelReturn(i))

SpecFair == Init /\ [][Next]_vars /\ Fairness

-----------------------------------------------------------------------------
(* Vocabulary of the claims *)

\* The text of a message or a context is empty or only whitespace.
AllSpaces(s) == \A j \in 1..Len(s) : s[j] = " "

\* A message is missing or blank.
BlankMessage(m) == m.t = "undefined" \/ (m.t = "string" /\ AllSpaces(m.v))

\* A context is text that is empty or only whitespace.
BlankContext(c) == c.t = "string" /\ AllSpaces(c.v)

\* The question every non-blank message of Messages asks, trimmed.
Question == <<"a">>

\* The stored history of key k, now and after the step.
Stored(k) == HistoryOf(conversationStore, heap, k)

StoredNext(k) == HistoryOf(conversationStore', heap', k)

\* The last min(n, HistoryLimit) of the exchanges 1..n of a session.
LastTurns(n) ==
    LET first == IF n > HistoryLimit THEN n - HistoryLimit ELSE 0
    IN [j \in 1..(n - first) |-> Exchange(first + j)]

\* Slot i ends its request in this step.
Ends(i) == req[i].pc \in {"received", "retrieving", "calling"} /\ req'[i].pc = "done"

\* SpecLong's initial state, which SpecSeq reaches.
LongStartReached ==
    /\ conversationStore = [k \in OneKey |-> 1]
    /\ heap = [a \in {1} |-> LastTurns(Prefilled)]
    /\ answers = [k \in SessionKeys |-> IF k \in OneKey THEN Prefilled ELSE 0]
    /\ \A i \in Slots : req[i].pc \in {"idle", "done"}
    /\ RAG_SERVICE_URL

-----------------------------------------------------------------------------
(* The claims *)

\* C1: with one request at a time and no DELETE (SpecSeq), a session that has
\* had N successful chat turns stores exactly the last min(N, 10) of its
\* {trimmed message, answer} pairs, oldest first; after the 11th turn only
\* turn 1 is gone.
C1_LastTenInOrder == \A k \in SessionKeys : Stored(k) = LastTurns(answers[k])

\* C1 witness: some session has had 11 turns and stores turns 2..11.
C1_EleventhTurnStored ==
    \E k \in SessionKeys :
        /\ answers[k] = HistoryLimit + 1
        /\ Len(Stored(k)) = HistoryLimit
        /\ Head(Stored(k)) = Exchange(2)

\* C2: in every reachable state, whatever the interleaving of chat, generate,
\* GET and DELETE requests, every stored history has at most 10 exchanges.
C2_StoredAtMostTen ==
    \A k \in DOMAIN conversationStore : Len(heap[conversationStore[k]]) <= HistoryLimit

\* C2 witness: a full history is stored while a request still in flight holds
\* the array it was sliced from, which has grown past 10.
C2_OverflowWhileInFlight ==
    /\ \E k \in DOMAIN conversationStore : Len(heap[conversationStore[k]]) = HistoryLimit
    /\ \E i \in Slots :
           /\ req[i].op = "chat"
           /\ req[i].pc \in {"retrieving", "calling"}
           /\ Len(heap[req[i].history]) > HistoryLimit

\* C3: a chat request whose message is missing or blank ends with 400; the
\* store and every array are as before, and neither retrieveContext nor the
\* model was called.
C3_BlankMessageRejected ==
    [][\A i \in Slots :
           (/\ req[i].pc = "received"
            /\ req[i].op = "chat"
            /\ BlankMessage(req[i].message)
            /\ req'[i] # req[i])
           => /\ req'[i].pc = "done"
              /\ req'[i].status = 400
              /\ req'[i].ragCalls = 0
              /\ req'[i].modelCalls = 0
              /\ conversationStore' = conversationStore
              /\ heap' = heap]_vars

\* C3 witness: a chat request was answered 400 while a session had history.
C3_RejectedWithHistory ==
    /\ conversationStore # <<>>
    /\ \E i \in Slots : req[i].pc = "done" /\ req[i].op = "chat" /\ req[i].status = 400

\* C4: a chat request whose model call gives no answer ends with 500 and
\* leaves the store and every stored history as they were; the stored history
\* of a session changes only in a step in which the model answers.
C4_FailedCallRecordsNothing ==
    [][/\ \A i \in Slots :
              (/\ req[i].pc = "calling"
               /\ req[i].op = "chat"
               /\ Ends(i)
               /\ answers' = answers)
              => /\ req'[i].status = 500
                 /\ conversationStore' = conversationStore
                 /\ \A k \in SessionKeys : StoredNext(k) = Stored(k)
       /\ (conversationStore' # conversationStore \/ heap' # heap)
          => \A k \in SessionKeys :
                 (answers'[k] = answers[k] /\ StoredNext(k) # <<>>)
                 => StoredNext(k) = Stored(k)]_vars

\* C4 witness: a chat request whose model call failed was answered 500 while
\* a session had history.
C4_FailedWithHistory ==
    /\ conversationStore # <<>>
    /\ \E i \in Slots :
           /\ req[i].pc = "done"
           /\ req[i].op = "chat"
           /\ req[i].status = 500
           /\ req[i].modelCalls = 1

\* C5: a chat request whose retrieved context is empty or blank ends, in the
\* step that receives it, with the 200 canned refusal, without a model call
\* and with the store and the stored histories unchanged; the model is
\* called for a chat request only with a non-blank context.
C5_BlankContextRefused ==
    [][\A i \in Slots :
           (req'[i] # req[i] /\ req'[i].op = "chat")
           => /\ (/\ req'[i].pc \in {"calling", "done"}
                  /\ req'[i].ragCalls = 1
                  /\ BlankContext(req'[i].context))
                 => /\ req'[i].pc = "done"
                    /\ req'[i].status = 200
                    /\ req'[i].body.response = CannedRefusal
                    /\ req'[i].modelCalls = 0
                    /\ conversationStore' = conversationStore
                    /\ \A k \in SessionKeys : StoredNext(k) = Stored(k)
              /\ req'[i].modelCalls > 0
                 => /\ req'[i].context.t = "string"
                    /\ ~AllSpaces(req'[i].context.v)]_vars

\* C5 witness: a whitespace-only context was refused while a session had
\* history.
C5_BlankRefusedWithHistory ==
    /\ conversationStore # <<>>
    /\ \E i \in Slots :
           /\ req[i].pc = "done"
           /\ req[i].op = "chat"
           /\ req[i].context = Str(<<" ">>)
           /\ req[i].body.response = CannedRefusal

\* C6: whatever the retrieval service does, retrieveContext hands the chat
\* flow a text, so a chat request ends with 500 only after a model call.
C6_RetrievalNeverFails ==
    \A i \in Slots :
        (req[i].op = "chat" /\ req[i].pc \in {"calling", "done"} /\ req[i].ragCalls = 1)
        => /\ req[i].context.t = "string"
           /\ (req[i].status = 500 => req[i].modelCalls = 1)

\* C7: every chat request that is received eventually gets its response.
C7_ChatAlwaysAnswered ==
    \A i \in Slots :
        (req[i].pc = "received" /\ req[i].op = "chat") ~> (req[i].pc = "done")

\* C8: the step that handles DELETE for s answers 200 and leaves s without
\* history, so that a GET handled next returns the empty history: GET returns
\* the history stored at that moment and changes nothing.  DELETE of an
\* absent session, such as a second DELETE in a row, leaves the store as it is.
C8_DeleteThenGetEmpty ==
    [][\A i \in Slots :
           /\ (req[i].pc = "received" /\ req[i].op = "delete" /\ req'[i] # req[i])
              => /\ req'[i].pc = "done"
                 /\ req'[i].status = 200
                 /\ StoredNext(req[i].sessionId) = <<>>
                 /\ req[i].sessionId \notin DOMAIN conversationStore'
                 /\ (req[i].sessionId \notin DOMAIN conversationStore
                     => conversationStore' = conversationStore)
           /\ (req[i].pc = "received" /\ req[i].op = "get" /\ req'[i] # req[i])
              => /\ req'[i].pc = "done"
                 /\ req'[i].status = 200
                 /\ req'[i].body.sessionId = req[i].sessionId
                 /\ req'[i].body.history = Stored(req[i].sessionId)
                 /\ conversationStore' = conversationStore
                 /\ heap' = heap]_vars

\* C8 witness: a GET returned the empty history for a session that has had an
\* exchange recorded, while a DELETE was the other request handled.
C8_EmptyAfterDelete ==
    \E i, j \in Slots :
        /\ req[i].pc = "done" /\ req[i].op = "get"
        /\ req[i].body.history = <<>>
        /\ answers[req[i].body.sessionId] > 0
        /\ req[j].pc = "done" /\ req[j].op = "delete"

\* C9: a chat request uses the sessionId it was sent, or else a synthesized
\* key, to load the history; its 200 response carries that key, and the
\* history stored under that key then ends with the exchange of the trimmed
\* message and the response text.
C9_ResponseCarriesStoredKey ==
    [][\A i \in Slots :
           /\ (/\ req[i].pc = "received"
               /\ req[i].op = "chat"
               /\ req'[i].pc \in {"retrieving", "calling"})
              => /\ IF req[i].sessionId # NoSession
                    THEN req'[i].session = req[i].sessionId
                    ELSE \E t \in 0..MaxClock : req'[i].session = SynthKey(t)
                 /\ IF req'[i].session \in DOMAIN conversationStore
                    THEN req'[i].history = conversationStore[req'[i].session]
                    ELSE heap'[req'[i].history] = <<>>
           /\ (/\ req[i].pc = "calling"
               /\ req[i].op = "chat"
               /\ Ends(i)
               /\ req'[i].status = 200)
              => /\ req'[i].body.sessionId = req[i].session
                 /\ StoredNext(req[i].session) # <<>>
                 /\ StoredNext(req[i].session)[Len(StoredNext(req[i].session))]
                        = [user |-> Question, assistant |-> req'[i].body.response]
                 /\ req'[i].body.response # CannedRefusal]_vars

\* C9 witness: a chat request without sessionId was answered 200 under a
\* synthesized key, and a GET of that key returned a history ending with its
\* exchange.
C9_GetOnReturnedKey ==
    \E i, j \in Slots :
        /\ req[i].pc = "done" /\ req[i].op = "chat" /\ req[i].status = 200
        /\ req[i].modelCalls = 1
        /\ req[i].body.sessionId = SynthKey(MaxClock)
        /\ req[j].pc = "done" /\ req[j].op = "get"
        /\ req[j].body.sessionId = req[i].body.sessionId
        /\ req[j].body.history # <<>>
        /\ req[j].body.history[Len(req[j].body.history)].assistant = req[i].body.response

\* C10: a generate request, however it ends, changes neither the store nor
\* any array, holds no history or session key, and never calls
\* retrieveContext.
C10_GenerateStateless ==
    [][\A i \in Slots :
           (req[i].op = "generate" /\ req'[i] # req[i] /\ req'[i].op = "generate")
           => /\ conversationStore' = conversationStore
              /\ heap' = heap
              /\ answers' = answers
              /\ req'[i].ragCalls = 0
              /\ req'[i].history = NoArray
              /\ req'[i].session = NoSession
              /\ req'[i].pc = "done" => req'[i].status \in {200, 400, 500}]_vars

\* C10 witness: generate requests ended with 200 and with 500 while a
\* session had history.
C10_GenerateBesideHistory ==
    /\ conversationStore # <<>>
    /\ \E i, j \in Slots :
           /\ req[i].pc = "done" /\ req[i].op = "generate" /\ req[i].status = 200
           /\ req[j].pc = "done" /\ req[j].op = "generate" /\ req[j].status = 500

\* C11 as claimed: the model request of a generate request carries, for max
\* length, temperature and nucleus probability, the value of the request's
\* options where one was supplied and the default 512, 0.7, 0.9 otherwise.
C11_CallerOrDefault ==
    \A i \in Slots :
        (req[i].op = "generate" /\ req[i].pc = "calling")
        => LET o == req[i].options
               m == req[i].modelRequest
           IN /\ m.max_length = IF o.maxLength # NotSupplied THEN o.maxLength ELSE 512
              /\ m.temperature = IF o.temperature # NotSupplied THEN o.temperature ELSE 7
              /\ m.top_p = IF o.topP # NotSupplied THEN o.topP ELSE 9

\* C11 amended: the model request of a generate request carries the trimmed
\* prompt and the fixed parameters 512, 0.7, 0.9, whatever options the request
\* supplied.
C11_FixedParameters ==
    \A i \in Slots :
        (req[i].op = "generate" /\ req[i].pc = "calling")
        => /\ req[i].modelRequest.endpoint = "/generate"
           /\ req[i].modelRequest.message = Question
           /\ req[i].modelRequest.max_length = 512
           /\ req[i].modelRequest.temperature = 7
           /\ req[i].modelRequest.top_p = 9

\* C11 witness: the model is being called for a generate request that
\* supplied all three options.
C11_CalledWithOptions ==
    \E i \in Slots :
        /\ req[i].op = "generate"
        /\ req[i].pc = "calling"
        /\ req[i].options.maxLength # NotSupplied
        /\ req[i].options.temperature # NotSupplied
        /\ req[i].options.topP # NotSupplied

\* The two templates C12 speaks of: the strict one tells the model to use only
\* the context, the fallback one to use general knowledge.
StrictTemplate(context, question) ==
    <<"SYSTEM:", "Answer ONLY using the provided context.", "USER:", "Context:", context,
      "Question:", question, "Answer:">>

FallbackTemplate(context, question) ==
    <<"SYSTEM:", "Answer from general knowledge.", "USER:", "Context:", context,
      "Question:", question, "Answer:">>

\* A chat request whose retrieval has returned text.
Retrieved(i) ==
    /\ req[i].op = "chat"
    /\ req[i].pc \in {"calling", "done"}
    /\ req[i].ragCalls = 1
    /\ req[i].context.t = "string"

\* C12 as claimed: there is a threshold such that a chat request whose
\* context is no longer than it calls the model with the fallback template,
\* and one whose context is longer calls it with the strict template, which
\* embeds the context verbatim and the question.
C12_TemplateByThreshold ==
    \E threshold \in 0..2 :
        \A i \in Slots :
            Retrieved(i)
            => /\ req[i].modelCalls = 1
               /\ req[i].pc = "calling"
                  => req[i].modelRequest.message =
                         IF Len(req[i].context.v) <= threshold
                         THEN FallbackTemplate(req[i].context.v, Question)
                         ELSE StrictTemplate(req[i].context.v, Question)

\* C12 amended: there is one template, the strict one.  A chat request whose
\* context is empty or blank builds no prompt and calls no model (it gets the
\* canned refusal); every other context, however short, is embedded verbatim
\* in the strict template with the trimmed question.
C12_StrictTemplateOnly ==
    \A i \in Slots :
        Retrieved(i)
        => IF AllSpaces(req[i].context.v)
           THEN /\ req[i].modelCalls = 0
                /\ req[i].pc = "done"
                /\ req[i].body.response = CannedRefusal
           ELSE /\ req[i].modelCalls = 1
                /\ req[i].pc = "calling"
                   => req[i].modelRequest.message =
                          StrictTemplate(req[i].context.v, Question)

\* C12 witness: the model is being called with a two-character context, one
\* of them a space.
C12_ShortContextCalled ==
    \E i \in Slots :
        /\ Retrieved(i)
        /\ req[i].pc = "calling"
        /\ req[i].context.v = <<" ", "c">>

\* The n-th exchange recorded for session k is part of k's stored history.
InHistory(k, n) == \E j \in 1..Len(Stored(k)) : Stored(k)[j] = Exchange(n)

\* Slot i holds a DELETE for session k that is about to be handled.
DeleteDue(i, k) ==
    req[i].pc = "received" /\ req[i].op = "delete" /\ req[i].sessionId = k

\* C13 as claimed: an exchange that is in the stored history of session k
\* when a DELETE for k is handled is never again part of k's stored history,
\* whatever chat requests for k were in flight at the DELETE.
C13_DeletedStaysDeleted ==
    \A i \in Slots, k \in SessionKeys, n \in 1..MaxCalls :
        []((DeleteDue(i, k) /\ InHistory(k, n))
           => [](req[i].pc # "received" => ~InHistory(k, n)))

\* Slot i's chat request ends in this step with the model's answer.
Succeeds(i) ==
    /\ req[i].pc = "calling"
    /\ req[i].op = "chat"
    /\ req'[i].pc = "done"
    /\ req'[i].status = 200

\* Slot i holds a chat request for session k that ended with the n-th answer
\* the model gave in k.
Answered(i, k, n) ==
    /\ req[i].pc = "done"
    /\ req[i].op = "chat"
    /\ req[i].status = 200
    /\ req[i].body.sessionId = k
    /\ req[i].body.response = AnswerText(n)

\* C14: the last writer wins.  A chat request that succeeds stores the array
\* it loaded when it began, with its own exchange appended (cut to the last
\* 10), whatever the store holds for the session at that moment.
C14_LastWriterWins ==
    [][\A i \in Slots :
           Succeeds(i)
           => StoredNext(req[i].session) =
                  SliceLast(Append(heap[req[i].history],
                                   [user |-> Question, assistant |-> req'[i].body.response]),
                            HistoryLimit)]_vars

\* C14 witness (SpecRace has no DELETE): two chat requests for one session
\* have both ended with the model's answer, and the stored history of the
\* session lacks the exchange of one of them.
C14_LostUpdate ==
    \E k \in SessionKeys, m, n \in 1..MaxCalls :
        /\ m # n
        /\ Answered(1, k, m)
        /\ Answered(2, k, n)
        /\ ~InHistory(k, m)
        /\ InHistory(k, n)

\* The session key of the request in slot i: the resolved key of a chat
\* request, the path parameter of a GET or DELETE, none for generate.
OwnKey(i) == IF req[i].op = "chat" THEN req[i].session ELSE req[i].sessionId

\* C15: a step of the request in slot i changes the stored history of no
\* session key but the request's own, and adds or removes no other entry of
\* the store, whatever else is in flight.
C15_OnlyOwnSession ==
    [][(conversationStore' # conversationStore \/ heap' # heap)
       => \A i \in Slots, k \in SessionKeys :
              (req'[i] # req[i] /\ k # OwnKey(i))
              => /\ StoredNext(k) = Stored(k)
                 /\ (k \in DOMAIN conversationStore') = (k \in DOMAIN conversationStore)]_vars

\* C15 witness: a DELETE has removed the history of one session and a chat
\* request has recorded an exchange in another, whose history is stored.
C15_OtherSessionKept ==
    \E i, j \in Slots, k, d \in SessionKeys :
        /\ k # d
        /\ req[i].pc = "done"
        /\ req[i].op = "delete"
        /\ answers[d] > 0
        /\ d \notin DOMAIN conversationStore
        /\ Answered(j, k, answers[k])
        /\ InHistory(k, answers[k])

\* C16: the steps of one chat request happen in order and once.  A step of
\* the request calls the retrieval service and the model at most once each;
\* the model is called only in the step in which the awaited retrieval
\* returns, with a prompt built from the context it returned; the store and
\* the stored histories change only in the step in which the awaited model
\* call returns its answer, which is the step that sends the 200 response;
\* a request that has ended calls nothing more.
C16_StepsInOrder ==
    [][\A i \in Slots :
           (req'[i] # req[i] /\ req'[i].op = "chat")
           => /\ req'[i].ragCalls <= 1
              /\ req'[i].modelCalls <= 1
              /\ req'[i].modelCalls > req[i].modelCalls
                 => /\ req[i].pc = "retrieving"
                    /\ req[i].ragCalls = 1
                    /\ req'[i].pc = "calling"
                    /\ req'[i].modelRequest.message =
                           StrictTemplate(req'[i].context.v, Question)
              /\ req[i].pc \in {"received", "retrieving"}
                 => req[i].modelCalls = 0 /\ req[i].modelRequest = NoRequest
              /\ ((conversationStore' # conversationStore \/ heap' # heap)
                     /\ (conversationStore' # conversationStore
                            \/ \E k \in SessionKeys : StoredNext(k) # Stored(k)))
                 => /\ req[i].pc = "calling"
                    /\ req[i].modelCalls = 1
                    /\ req'[i].pc = "done"
                    /\ req'[i].status = 200
              /\ req'[i].pc = "done"
                 => req[i].pc \in {"received", "retrieving", "calling"}]_vars

\* C16 witness: a chat request has ended with the model's answer after one
\* retrieval call and one model call, and its exchange is stored.
C16_OneCallEach ==
    \E i \in Slots, k \in SessionKeys :
        /\ Answered(i, k, answers[k])
        /\ req[i].ragCalls = 1
        /\ req[i].modelCalls = 1
        /\ InHistory(k, answers[k])
        /\ Len(Stored(k)) = 2

\* The number the model server's answer carries: the n of the n-th answer
\* given in the session, so a larger number was recorded later.
Turn(e) == e.assistant[2]

\* C17: in every reachable state every entry of a stored history is the pair
\* {trimmed message, answer text} of one answered chat request of that
\* session, unaltered, and the entries stand in the order in which they were
\* recorded, none of them twice.
C17_ExchangesRecordedInOrder ==
    \A k \in DOMAIN conversationStore :
        LET h == heap[conversationStore[k]]
        IN /\ \A j \in 1..Len(h) :
                  /\ Turn(h[j]) \in 1..answers[k]
                  /\ h[j] = [user |-> Question, assistant |-> AnswerText(Turn(h[j]))]
           /\ \A j \in 1..(Len(h) - 1) : Turn(h[j]) < Turn(h[j + 1])

\* C17 witness: a stored history has been cut to 10 and lacks an exchange
\* between two that it holds, lost to a concurrent request.
C17_OrderedWithGap ==
    \E k \in DOMAIN conversationStore :
        LET h == heap[conversationStore[k]]
        IN /\ Len(h) = HistoryLimit
           /\ Turn(h[1]) > 1
           /\ \E j \in 1..(Len(h) - 1) : Turn(h[j + 1]) > Turn(h[j]) + 1

\* The session key of a chat request that has passed validation.
SessionOf(r) == IF r.pc = "done" THEN r.body.sessionId ELSE r.session

\* Slot i holds a chat request without sessionId and with a message, about
\* to be handled.
KeylessDue(i) ==
    /\ req[i].pc = "received"
    /\ req[i].op = "chat"
    /\ req[i].sessionId = NoSession
    /\ ~BlankMessage(req[i].message)

\* C18: the key of a chat request that sends no sessionId is session_<t>, t
\* the millisecond in which it is handled, and nothing else decides it: for
\* every t the request handled at t gets session_<t>, also when that key is
\* already stored, and it then loads the history stored under it.
C18_KeyFromClockOnly ==
    \A i \in Slots, t \in 0..MaxClock :
        KeylessDue(i)
        => /\ ENABLED (ChatHandler(i, {t}) /\ SessionOf(req'[i]) = <<"session_", t>>)
           /\ ~ ENABLED (ChatHandler(i, {t}) /\ req'[i].pc # "stalled"
                                             /\ SessionOf(req'[i]) # <<"session_", t>>)
           /\ ~ ENABLED (ChatHandler(i, {t})
                           /\ req'[i].pc = "retrieving"
                           /\ req'[i].history # StoreGet(conversationStore, <<"session_", t>>)
                           /\ StoreGet(conversationStore, <<"session_", t>>) # NoArray)

\* C18 witness (SpecKeyless has no DELETE and no request with a sessionId):
\* two chat requests were handled in one millisecond while the key was not
\* stored, both have been answered under that key, and the one that stored
\* later has replaced the history of the other.
C18_SameMillisecondShared ==
    \E k \in SessionKeys, m, n \in 1..MaxCalls :
        /\ m < n
        /\ Answered(1, k, m)
        /\ Answered(2, k, n)
        /\ Stored(k) = <<Exchange(n)>>

\* SpecShared's initial states, which SpecSeq reaches.
SharedStartReached ==
    \E n \in {1, Prefilled, HistoryLimit} :
        /\ conversationStore = [k \in OneKey |-> 1]
        /\ heap = [a \in {1} |-> LastTurns(n)]
        /\ answers = [k \in SessionKeys |-> IF k \in OneKey THEN n ELSE 0]
        /\ \A i \in Slots : req[i].pc \in {"idle", "done"}
        /\ RAG_SERVICE_URL

\* The last two entries of a history.
LastTwo(h) == IF Len(h) < 2 THEN h ELSE SubSeq(h, Len(h) - 1, Len(h))

\* C19: when two chat requests for a session that has a stored history both
\* load it before either is answered, with no DELETE and no other chat for
\* the session, then once both have been answered the stored history ends
\* with the exchange of the first answered followed by that of the second.
C19_BothExchangesKept ==
    \A k \in OneKey, m, n \in 1..(HistoryLimit + 2) :
        (m < n /\ \E i, j \in Slots : Answered(i, k, m) /\ Answered(j, k, n))
        => LastTwo(Stored(k)) = <<Exchange(m), Exchange(n)>>

\* C19 witness: both requests loaded a full history and both were answered;
\* the history was cut twice and holds both exchanges at its end.
C19_BothKeptAfterCut ==
    \E k \in OneKey :
        /\ Answered(1, k, HistoryLimit + 2)
        /\ Answered(2, k, HistoryLimit + 1)
        /\ Len(Stored(k)) = HistoryLimit
        /\ Turn(Stored(k)[1]) = 3
        /\ LastTwo(Stored(k)) = <<Exchange(HistoryLimit + 1), Exchange(HistoryLimit + 2)>>

====
